---- MODULE Spec2Model ----
(***************************************************************************)
(* A model of dpdispatcher/submission.py: the Submission aggregate, its    *)
(* Jobs, the JSON snapshot kept on the remote root, and the driver         *)
(* run_submission.  The Batch (do_submit, check_status) and the Context    *)
(* (upload, download, check_file_exists, read_file, write_file) are        *)
(* external collaborators: every call of theirs either returns (any        *)
(* JobStatus for check_status) or raises.                                  *)
(*                                                                         *)
(* sha1 is modelled as an injective tag on the hashed value, so two hashes *)
(* are equal exactly when the hashed serializations are equal.             *)
(* work_base and the two common file lists are set once by the constructor *)
(* and handed unchanged to every serialization; they are the same in every *)
(* Submission of the model and are left out of the records.                *)
(***************************************************************************)
EXTENDS Integers, Sequences, FiniteSets, Bags, TLC

\* ---------------------------------------------------------------- bounds
\* tasks a caller registers on one Submission
MaxTasks == 2
\* largest resources.group_size a caller passes
MaxGroupSize == 2
\* processes started one after another on the same remote root
MaxRuns == 2
\* jobs of a Submission whose run_submission is explored
MaxRunJobs == 1
\* jobs of a Submission whose registration interface is explored
MaxJobs == 2
\* tasks and largest group_size of a Submission whose generate_jobs is explored
MaxGenTasks == 3
MaxGenGroupSize == 3
\* jobs generate_jobs may have appended in all
MaxGenJobs == 6
\* waiting, running or completing answers a well-behaved scheduler gives per job
MaxPolls == 2

\* ------------------------------------------------------------- constants
\* Job.handle_unexpected_job_state: "if self.fail_count > 5"
MaxFailCount == 5
\* submissions of one job a well-behaved scheduler terminates at most
MaxTerminations == MaxFailCount

JobStatus ==
  {"unsubmitted", "waiting", "running", "terminated", "finished", "completing", "unknown"}

\* job_state of a Job that was never refreshed (Job.__init__: None)
NoState == "None"

\* job_id of a Job that was never submitted (Job.__init__: "")
NoJobId == 0

VARIABLES
  resources,        \* Submission.resources: [group_size]
  belonging_tasks,  \* Submission.belonging_tasks
  belonging_jobs,   \* Submission.belonging_jobs: sequence of Job records
  submission_hash,  \* Submission.submission_hash
  batch,            \* Submission.batch: "None" or "batch"
  remote,           \* the Context's remote root: file name -> content
  batch_submits,    \* the scheduler: bag of job_hash, one copy per do_submit call received
  pc,               \* position of the running process in run_submission
  interrupt,        \* the exception time.sleep raised, "none" otherwise
  error,            \* the exception that left the last operation, "none" otherwise
  raised_at,        \* the position at which that exception was raised
  exit_code,        \* argument of exit(), -1 while the process has not exited
  op,               \* the last operation performed
  ret,              \* what it returned
  calls,            \* the Batch and Context calls it made, in order
  first_refresh,    \* check_all_finished: the job states after its own get_submission_state
  run,              \* number of the running process
  run_submits,      \* do_submit calls of this run, per job index
  uploaded,         \* upload_jobs was called in this run
  wrote,            \* write_file was called in this run
  slept,            \* a time.sleep of this run has returned
  recovered,        \* try_recover_from_json adopted the snapshot's jobs in this run
  only_terminated,  \* per job index: every check_status answer of this run was terminated
  only_finished,    \* per job index: every check_status answer of this run was finished
  only_alive,       \* per job index: every answer was waiting, running, completing or finished
  sched,            \* the scheduler behind the Batch, per job index; <<>>: a Batch that answers anything
  error_job,        \* index of the job whose handler raised error, 0 otherwise
  added             \* this run registered one task more than the run before it

vars ==
  <<resources, belonging_tasks, belonging_jobs, submission_hash, batch, remote,
    batch_submits, pc, interrupt, error, raised_at, exit_code, op, ret, calls,
    first_refresh, run, run_submits, uploaded, wrote, slept, recovered,
    only_terminated, only_finished, only_alive, sched, error_job, added>>

\* ------------------------------------------------------------ serialization

Sha1(x) == <<"sha1", x>>

\* Job.serialize: job_content_dict before the runtime triple is added
JobContent(job) ==
  [job_task_list |-> job.job_task_list, resources |-> job.resources]

JobHash(job) == Sha1(JobContent(job))

\* The JSON form of job_state.  It is a member of JobStatus, a class defined
\* outside this file, dumped by json.dumps(..., default=str); no line reads a
\* deserialized job_state before get_job_state overwrites it (lines 136, 211,
\* 183-184, 449-450), so the snapshot keeps one token for it.
DumpedJobState(job_state) == "job_state"

\* a serialize that ignores if_static and always adds the runtime triple
SerializeJobRuntime(job, if_static) ==
  [job_hash |-> Sha1([job_task_list |-> job.job_task_list, resources |-> job.resources]),
   job_task_list |-> job.job_task_list, resources |-> job.resources,
   job_state |-> "job_state", job_id |-> job.job_id, fail_count |-> job.fail_count]

\* Job.serialize
SerializeJob(job, if_static) ==
  IF if_static
  THEN [job_hash |-> JobHash(job), job_task_list |-> job.job_task_list,
        resources |-> job.resources]
  ELSE [job_hash |-> JobHash(job), job_task_list |-> job.job_task_list,
        resources |-> job.resources, job_state |-> DumpedJobState(job.job_state),
        job_id |-> job.job_id, fail_count |-> job.fail_count]

\* Submission.serialize
Serialize(res, jobs, if_static) ==
  [resources |-> res,
   belonging_jobs |-> [i \in 1..Len(jobs) |-> SerializeJob(jobs[i], if_static)]]

\* a submission hash that covers the resources and not the jobs
GetHashResources(res, jobs) == Sha1([resources |-> res])

\* Submission.get_hash
GetHash(res, jobs) == Sha1(Serialize(res, jobs, TRUE))

\* "{submission_hash}.json"
SubmissionFileName(h) == <<h, ".json">>

\* Job.__init__
NewJob(task_list, res) ==
  [job_task_list |-> task_list, resources |-> res,
   job_state |-> NoState, job_id |-> NoJobId, fail_count |-> 0]

\* a deserialize that rebuilds the job and drops the runtime triple
DeserializeJobFresh(job_dict) == NewJob(job_dict.job_task_list, job_dict.resources)

\* Job.deserialize
DeserializeJob(job_dict) ==
  [NewJob(job_dict.job_task_list, job_dict.resources) EXCEPT
     !.job_state = job_dict.job_state,
     !.job_id = job_dict.job_id,
     !.fail_count = job_dict.fail_count]

\* Submission.deserialize (the fields of the new Submission)
Deserialize(submission_dict) ==
  LET jobs == [i \in 1..Len(submission_dict.belonging_jobs) |->
                 DeserializeJob(submission_dict.belonging_jobs[i])]
  IN [resources |-> submission_dict.resources,
      belonging_tasks |-> <<>>,
      belonging_jobs |-> jobs,
      submission_hash |-> GetHash(submission_dict.resources, jobs)]

\* Submission.__eq__
SubmissionEq(res1, jobs1, res2, jobs2) ==
  Serialize(res1, jobs1, TRUE) = Serialize(res2, jobs2, TRUE)

\* ------------------------------------------------------------ generate_jobs

\* random.seed(42); random.shuffle(list(range(n)))
Shuffle42(n) ==
  CASE n = 0 -> <<>>
    [] n = 1 -> <<0>>
    [] n = 2 -> <<1, 0>>
    [] n = 3 -> <<1, 0, 2>>
    [] n = 4 -> <<2, 1, 3, 0>>
    [] n = 5 -> <<3, 1, 2, 4, 0>>
    [] n = 6 -> <<3, 1, 2, 4, 0, 5>>

Min(a, b) == IF a < b THEN a ELSE b

\* chunks that all start at the head of the shuffled indices
RandomTaskIndexLLHead(task_num, group_size) ==
  LET idx == Shuffle42(task_num)
      nchunks == (task_num + group_size - 1) \div group_size
  IN [c \in 1..nchunks |-> SubSeq(idx, 1, Min(group_size, task_num))]

\* random_task_index_ll: [random_task_index[ii:ii+group_size] for ii in range(0, task_num, group_size)]
RandomTaskIndexLL(task_num, group_size) ==
  LET idx == Shuffle42(task_num)
      nchunks == (task_num + group_size - 1) \div group_size
  IN [c \in 1..nchunks |->
        SubSeq(idx, (c - 1) * group_size + 1, Min(c * group_size, task_num))]

\* the Jobs generate_jobs appends
GeneratedJobs(tasks, res) ==
  LET ll == RandomTaskIndexLL(Len(tasks), res.group_size)
  IN [c \in 1..Len(ll) |->
        NewJob([k \in 1..Len(ll[c]) |-> tasks[ll[c][k] + 1]], res)]

\* ------------------------------------------------- Batch and Context calls
(* A "world" w threads the effects of one operation through the calls it   *)
(* makes: w.jobs (belonging_jobs), w.remote, w.subs (batch_submits),       *)
(* w.rsub (run_submits), w.only, w.onlyf, w.onlya (only_terminated,        *)
(* only_finished, only_alive), w.sched, w.calls, w.wrote, and              *)
(* w.err, the exception that is propagating ("none" while the operation is *)
(* still running; w.err_job is the job whose handler raised it).  An       *)
(* operator on worlds yields the set of worlds the call can end in.        *)

Call(w, name, i) == [w EXCEPT !.calls = Append(@, <<name, i>>)]

Raise(w, e) == [w EXCEPT !.err = e]

RaiseJob(w, e, i) == [w EXCEPT !.err = e, !.err_job = i]

\* jobs in these states are with the scheduler or done
AliveStates == {"waiting", "running", "completing", "finished"}

\* Batch.check_status(job): the answers the Batch can give for job i.  With
\* w.sched = <<>> it can give any.  Otherwise it speaks for a scheduler that
\* knows no job before its first do_submit, keeps a terminated job terminated
\* until it is submitted again, keeps a finished job finished, terminates at
\* most MaxTerminations submissions of a job, and answers waiting, running or
\* completing at most MaxPolls times per job.
CheckStatusAnswers(w, i) ==
  IF w.sched = <<>> THEN JobStatus
  ELSE IF w.jobs[i].job_id = NoJobId THEN {"unsubmitted"}
  ELSE IF w.sched[i].dead THEN {"terminated"}
  ELSE IF w.jobs[i].job_state = "finished" THEN {"finished"}
  ELSE {"finished"}
       \cup (IF w.sched[i].polls > 0 THEN {"waiting", "running", "completing"} ELSE {})
       \cup (IF w.sched[i].term < MaxTerminations THEN {"terminated"} ELSE {})

\* the scheduler after it answered s for job i
Answered(w, i, s) ==
  IF w.sched = <<>> THEN w.sched
  ELSE [w.sched EXCEPT
          ![i] = [dead |-> s = "terminated",
                  term |-> IF s = "terminated" /\ ~@.dead THEN @.term + 1 ELSE @.term,
                  polls |-> IF s \in {"waiting", "running", "completing"}
                            THEN @.polls - 1 ELSE @.polls]]

\* the scheduler after it accepted a submission of job i
Submitted(w, i) ==
  IF w.sched = <<>> THEN w.sched ELSE [w.sched EXCEPT ![i].dead = FALSE]

\* a get_job_state that also counts a failure when the job is terminated
GetJobStateCounting(w, i) ==
  {[w1 EXCEPT !.jobs[i].job_state = s,
              !.jobs[i].fail_count = IF s = "terminated" THEN @ + 1 ELSE @]
     : s \in JobStatus, w1 \in {Call(w, "check_status", i)}}

\* Job.get_job_state: job_state = self.batch.check_status(self)
GetJobState(w, i) ==
  LET w1 == Call(w, "check_status", i)
  IN {[w1 EXCEPT !.jobs[i].job_state = s,
                 !.only[i] = @ /\ s = "terminated",
                 !.onlyf[i] = @ /\ s = "finished",
                 !.onlya[i] = @ /\ s \in AliveStates,
                 !.sched = Answered(w, i, s)] : s \in CheckStatusAnswers(w, i)}
     \cup {Raise(w1, "batch")}

\* Job.submit_job: job_id = self.batch.do_submit(self); register_job_id(job_id).
\* The scheduler numbers the submissions of a job: the n-th do_submit of a
\* job_hash returns n.
SubmitJob(w, i) ==
  LET h == JobHash(w.jobs[i])
      subs == w.subs (+) SetToBag({h})
      w1 == [Call(w, "do_submit", i) EXCEPT !.subs = subs, !.rsub[i] = @ + 1,
                                            !.sched = Submitted(w, i)]
  IN {[w1 EXCEPT !.jobs[i].job_id = CopiesIn(h, subs)], Raise(w1, "batch")}

\* self.get_job_state() as the next statement: skipped by a world of ws in
\* which an exception is propagating
ThenGetJobState(ws, i) ==
  UNION {IF w.err # "none" THEN {w} ELSE GetJobState(w, i) : w \in ws}

\* the budget test off by one: the fatal error one resubmission early
FailCountExceededEarly(job) == job.fail_count >= MaxFailCount

\* "if self.fail_count > 5"
FailCountExceeded(job) == job.fail_count > MaxFailCount

\* a branch body that does not refresh the state after submitting
ResubmitNoRefresh(w, i) ==
  IF FailCountExceeded(w.jobs[i])
  THEN {RaiseJob(w, "retry", i)}
  ELSE SubmitJob([w EXCEPT !.jobs[i].fail_count = @ + 1], i)

\* the body shared by the terminated and the unsubmitted branch:
\* check the budget, fail_count += 1, submit_job(), get_job_state()
Resubmit(w, i) ==
  IF FailCountExceeded(w.jobs[i])
  THEN {RaiseJob(w, "retry", i)}
  ELSE ThenGetJobState(SubmitJob([w EXCEPT !.jobs[i].fail_count = @ + 1], i), i)

\* a handler whose second test reads self.job_state again, after the refresh
HandleUnexpectedJobStateReread(w, i) ==
  IF w.jobs[i].job_state = "unknown"
  THEN {RaiseJob(w, "unknown_state", i)}
  ELSE UNION {IF w1.err # "none" \/ w1.jobs[i].job_state # "unsubmitted"
              THEN {w1} ELSE Resubmit(w1, i)
              : w1 \in (IF w.jobs[i].job_state = "terminated"
                        THEN Resubmit(w, i) ELSE {w})}

\* a handler that submits a job not yet submitted and leaves a terminated one
HandleUnexpectedJobStateNoRestart(w, i) ==
  IF w.jobs[i].job_state = "unknown"
  THEN {RaiseJob(w, "unknown_state", i)}
  ELSE IF w.jobs[i].job_state = "unsubmitted" THEN Resubmit(w, i) ELSE {w}

\* a handler that lets a job in state unknown pass
HandleUnexpectedJobStateLenient(w, i) ==
  IF w.jobs[i].job_state \in {"terminated", "unsubmitted"} THEN Resubmit(w, i) ELSE {w}

\* a handler that submits again every job that is not finished
HandleUnexpectedJobStateEager(w, i) ==
  IF w.jobs[i].job_state = "unknown"
  THEN {RaiseJob(w, "unknown_state", i)}
  ELSE IF w.jobs[i].job_state = "finished" THEN {w} ELSE Resubmit(w, i)

\* Job.handle_unexpected_job_state; job_state is the local read once on entry
HandleUnexpectedJobState(w, i) ==
  LET job_state == w.jobs[i].job_state
      Terminated(w0, j) == IF job_state = "terminated" THEN Resubmit(w0, j) ELSE {w0}
      Unsubmitted(w0, j) == IF job_state = "unsubmitted" THEN Resubmit(w0, j) ELSE {w0}
  IN IF job_state = "unknown"
     THEN {RaiseJob(w, "unknown_state", i)}
     ELSE UNION {IF w1.err # "none" THEN {w1} ELSE Unsubmitted(w1, i)
                 : w1 \in Terminated(w, i)}

\* for job in self.belonging_jobs: job.get_job_state(), from the i-th job on,
\* stopping at the first exception
RECURSIVE GetSubmissionStateFrom(_, _)
GetSubmissionStateFrom(w, i) ==
  IF w.err # "none" \/ i > Len(w.jobs)
  THEN {w}
  ELSE UNION {GetSubmissionStateFrom(w2, i + 1) : w2 \in GetJobState(w, i)}

\* Submission.get_submission_state
GetSubmissionState(w) == GetSubmissionStateFrom(w, 1)

\* for job in self.belonging_jobs: job.handle_unexpected_job_state(), from the
\* i-th job on, stopping at the first exception
RECURSIVE HandleUnexpectedSubmissionStateFrom(_, _)
HandleUnexpectedSubmissionStateFrom(w, i) ==
  IF w.err # "none" \/ i > Len(w.jobs)
  THEN {w}
  ELSE UNION {HandleUnexpectedSubmissionStateFrom(w2, i + 1)
              : w2 \in HandleUnexpectedJobState(w, i)}

\* Submission.handle_unexpected_submission_state
HandleUnexpectedSubmissionState(w) == HandleUnexpectedSubmissionStateFrom(w, 1)

\* a write_file that leaves the remote root as it was
WriteFileLost(rem, name, content) == rem

\* Context.write_file(name, write_str)
WriteFile(rem, name, content) ==
  [n \in (DOMAIN rem) \cup {name} |-> IF n = name THEN content ELSE rem[n]]

\* Submission.submission_to_json: refresh, serialize with the runtime triple, write
SubmissionToJson(w, res, h) ==
  LET Write(w0) ==
        LET w1 == Call(w0, "write_file", 0)
        IN {[w1 EXCEPT !.remote = WriteFile(@, SubmissionFileName(h),
                                            Serialize(res, w0.jobs, FALSE)),
                       !.wrote = TRUE],
            Raise(w1, "context")}
  IN UNION {IF w1.err # "none" THEN {w1} ELSE Write(w1) : w1 \in GetSubmissionState(w)}

States(jobs) == [i \in 1..Len(jobs) |-> jobs[i].job_state]

\* an any() that is true of every non-empty job list
AnyInAlways(jobs, S) == jobs # <<>>

\* an any() that is true of no job list
AnyInNever(jobs, S) == FALSE

\* any(job.job_state in S for job in jobs)
AnyIn(jobs, S) == \E i \in 1..Len(jobs) : jobs[i].job_state \in S

\* a check_all_finished that evaluates the return predicate on the states of
\* its own refresh, before submission_to_json refreshes them again
CheckAllFinishedFirst(w, res, h) ==
  LET Result(w0, jobs) ==
        [w |-> w0, first |-> States(jobs),
         ret |-> IF w0.err # "none" THEN "raise"
                 ELSE IF AnyIn(jobs, JobStatus \ {"finished"}) THEN "False" ELSE "True"]
      AfterRefresh(w1) ==
        IF w1.err # "none"
        THEN {[w |-> w1, first |-> <<>>, ret |-> "raise"]}
        ELSE IF AnyIn(w1.jobs, {"terminated", "unknown"})
        THEN {Result(w2, w1.jobs) : w2 \in SubmissionToJson(w1, res, h)}
        ELSE {Result(w1, w1.jobs)}
  IN UNION {AfterRefresh(w1) : w1 \in GetSubmissionState(w)}

\* Submission.check_all_finished: the set of [w, ret, first] it can end in
CheckAllFinished(w, res, h) ==
  LET Result(w0, first) ==
        [w |-> w0, first |-> first,
         ret |-> IF w0.err # "none" THEN "raise"
                 ELSE IF AnyIn(w0.jobs, {"running", "waiting", "unsubmitted", "completing",
                                         "terminated", "unknown"})
                 THEN "False" ELSE "True"]
      AfterRefresh(w1) ==
        IF w1.err # "none"
        THEN {Result(w1, <<>>)}
        ELSE IF AnyIn(w1.jobs, {"terminated", "unknown"})
        THEN {Result(w2, States(w1.jobs)) : w2 \in SubmissionToJson(w1, res, h)}
        ELSE {Result(w1, States(w1.jobs))}
  IN UNION {AfterRefresh(w1) : w1 \in GetSubmissionState(w)}

\* ------------------------------------------------------------ the driver

\* the world an operation of the running process starts in
World ==
  [jobs |-> belonging_jobs, remote |-> remote, subs |-> batch_submits,
   rsub |-> run_submits, only |-> only_terminated, onlyf |-> only_finished,
   onlya |-> only_alive, sched |-> sched, calls |-> <<>>, wrote |-> wrote,
   err |-> "none", err_job |-> 0]

\* the state an operation leaves: w is where it ended, name and r are recorded,
\* next is the position after a normal return
Leave(w, name, r, next, first) ==
  /\ first_refresh' = first
  /\ belonging_jobs' = w.jobs
  /\ remote' = w.remote
  /\ batch_submits' = w.subs
  /\ run_submits' = w.rsub
  /\ only_terminated' = w.only
  /\ only_finished' = w.onlyf
  /\ only_alive' = w.onlya
  /\ sched' = w.sched
  /\ calls' = w.calls
  /\ wrote' = w.wrote
  /\ error' = w.err
  /\ error_job' = w.err_job
  /\ op' = name
  /\ ret' = IF w.err # "none" THEN "raise" ELSE r
  /\ raised_at' = IF w.err # "none" THEN pc ELSE raised_at
  /\ pc' = IF w.err # "none" THEN "raised" ELSE next

\* Submission.try_recover_from_json: the set of [w, recovered] it can end in.
\* On a match w.jobs are the snapshot's jobs (self.belonging_jobs =
\* submission.belonging_jobs) and bind_batch recomputes submission_hash.
TryRecover(w, res, h) ==
  LET name == SubmissionFileName(h)
      w0 == Call(w, "check_file_exists", 0)
      w1 == Call(w0, "read_file", 0)
      submission == Deserialize(w.remote[name])
  IN {[w |-> Raise(w0, "context"), recovered |-> FALSE]}
     \cup
     (IF name \notin DOMAIN w.remote
      THEN {[w |-> w0, recovered |-> FALSE]}
      ELSE {[w |-> Raise(w1, "context"), recovered |-> FALSE],
            IF SubmissionEq(res, w.jobs, submission.resources, submission.belonging_jobs)
            THEN [w |-> [Call(w1, "bind_submission", 0) EXCEPT
                           !.jobs = submission.belonging_jobs],
                  recovered |-> TRUE]
            ELSE [w |-> Raise(w1, "recover_failed"), recovered |-> FALSE]})

\* self.try_recover_from_json() (line 135)
TryRecoverFromJson ==
  /\ pc = "recover"
  /\ \E o \in TryRecover(World, resources, submission_hash) :
       /\ Leave(o.w, "try_recover_from_json", "None", "check_entry", <<>>)
       /\ submission_hash' =
            IF o.recovered THEN GetHash(resources, o.w.jobs) ELSE submission_hash
       /\ recovered' = o.recovered
  /\ UNCHANGED <<resources, belonging_tasks, batch, interrupt, exit_code,
                 run, uploaded, slept, added>>

\* self.check_all_finished() on entry (line 136) and as the loop test (line 143)
CheckAllFinishedStep ==
  /\ pc \in {"check_entry", "check_loop"}
  /\ \E o \in CheckAllFinished(World, resources, submission_hash) :
       /\ Leave(o.w, "check_all_finished", o.ret,
                IF pc = "check_entry"
                THEN (IF o.ret = "True" THEN "check_loop" ELSE "upload")
                ELSE (IF o.ret = "True" THEN "handle_final" ELSE "sleep"),
                o.first)
  /\ UNCHANGED <<resources, belonging_tasks, submission_hash, batch, interrupt,
                 exit_code, run, uploaded, slept, recovered, added>>

\* self.upload_jobs() (line 139)
UploadJobs ==
  /\ pc = "upload"
  /\ LET w == Call(World, "upload", 0)
     IN \/ Leave(w, "upload_jobs", "None", "handle_entry", <<>>)
        \/ Leave(Raise(w, "context"), "upload_jobs", "None", "handle_entry", <<>>)
  /\ uploaded' = TRUE
  /\ UNCHANGED <<resources, belonging_tasks, submission_hash, batch, interrupt,
                 exit_code, run, slept, recovered, added>>

\* self.handle_unexpected_submission_state() at lines 140, 168 and 171.
\* Line 141, "self.submission_to_json", names the method without calling it:
\* after the handler of line 140 the next thing run is the loop test.
HandleUnexpectedSubmissionStateStep ==
  /\ pc \in {"handle_entry", "handle_loop", "handle_final"}
  /\ \E w \in HandleUnexpectedSubmissionState(World) :
       Leave(w, "handle_unexpected_submission_state", "None",
             IF pc = "handle_final" THEN "final_snapshot" ELSE "check_loop", <<>>)
  /\ UNCHANGED <<resources, belonging_tasks, submission_hash, batch, interrupt,
                 exit_code, run, uploaded, slept, recovered, added>>

InterruptKinds == {"KeyboardInterrupt", "SystemExit", "Exception"}

\* time.sleep(10) inside the try (lines 144-145): it returns, and the else
\* clause runs, or it raises and the matching except clause runs
Sleep ==
  /\ pc = "sleep"
  /\ \/ /\ pc' = "handle_loop"
        /\ slept' = TRUE
        /\ ret' = "None"
        /\ UNCHANGED interrupt
     \/ \E k \in InterruptKinds :
          /\ pc' = "except"
          /\ interrupt' = k
          /\ ret' = "raise"
          /\ UNCHANGED slept
  /\ op' = "sleep"
  /\ calls' = <<>>
  /\ first_refresh' = <<>>
  /\ UNCHANGED <<resources, belonging_tasks, belonging_jobs, submission_hash, batch,
                 remote, batch_submits, error, raised_at, exit_code,
                 run, run_submits, uploaded, wrote, recovered, only_terminated, only_finished,
                 only_alive, sched,
                 error_job, added>>

\* self.submission_to_json() in the except clauses (lines 147, 154, 161) and
\* after the loop (line 172)
SubmissionToJsonStep ==
  /\ pc \in {"except", "final_snapshot"}
  /\ \E w \in SubmissionToJson(World, resources, submission_hash) :
       Leave(w, "submission_to_json", "None",
             IF pc = "except" THEN "exit" ELSE "download", <<>>)
  /\ UNCHANGED <<resources, belonging_tasks, submission_hash, batch, interrupt,
                 exit_code, run, uploaded, slept, recovered, added>>

\* exit(1), exit(2), exit(3) (lines 152, 159, 166)
ExitCode(k) ==
  CASE k = "KeyboardInterrupt" -> 1
    [] k = "SystemExit" -> 2
    [] k = "Exception" -> 3

Exit ==
  /\ pc = "exit"
  /\ pc' = "exited"
  /\ exit_code' = ExitCode(interrupt)
  /\ op' = "exit"
  /\ ret' = "None"
  /\ calls' = <<>>
  /\ UNCHANGED <<resources, belonging_tasks, belonging_jobs, submission_hash, batch,
                 remote, batch_submits, interrupt, error, raised_at, first_refresh,
                 run, run_submits, uploaded, wrote, slept, recovered, only_terminated, only_finished,
                 only_alive, sched,
                 error_job, added>>

\* self.download_jobs(); return True (lines 173-174)
DownloadJobs ==
  /\ pc = "download"
  /\ LET w == Call(World, "download", 0)
     IN \/ Leave(w, "download_jobs", "True", "returned", <<>>)
        \/ Leave(Raise(w, "context"), "download_jobs", "True", "returned", <<>>)
  /\ UNCHANGED <<resources, belonging_tasks, submission_hash, batch, interrupt,
                 exit_code, run, uploaded, slept, recovered, added>>

\* ------------------------------------------------------------ the processes

Tasks(n) == [i \in 1..n |-> i]

\* Submission(...), register_task_list(tasks), generate_jobs(), bind_batch(batch):
\* the Submission a process holds when it calls run_submission
ReadyJobs(tasks, res) == GeneratedJobs(tasks, res)

Init ==
  /\ \E n \in 1..MaxTasks, g \in 1..MaxGroupSize :
       /\ resources = [group_size |-> g]
       /\ belonging_tasks = Tasks(n)
       /\ belonging_jobs = ReadyJobs(Tasks(n), [group_size |-> g])
       /\ Len(belonging_jobs) <= MaxRunJobs
  /\ submission_hash = GetHash(resources, belonging_jobs)
  /\ batch = "batch"
  /\ remote = <<>>
  /\ batch_submits = EmptyBag
  /\ pc = "recover"
  /\ interrupt = "none"
  /\ error = "none"
  /\ raised_at = "none"
  /\ exit_code = -1
  /\ op = "bind_batch"
  /\ ret = "None"
  /\ calls = <<>>
  /\ first_refresh = <<>>
  /\ run = 1
  /\ run_submits = [i \in 1..Len(belonging_jobs) |-> 0]
  /\ only_terminated = [i \in 1..Len(belonging_jobs) |-> TRUE]
  /\ only_finished = [i \in 1..Len(belonging_jobs) |-> TRUE]
  /\ only_alive = [i \in 1..Len(belonging_jobs) |-> TRUE]
  /\ sched = <<>>
  /\ error_job = 0
  /\ uploaded = FALSE
  /\ wrote = FALSE
  /\ slept = FALSE
  /\ recovered = FALSE
  /\ added = FALSE

\* the process has ended (returned, exit(), or an exception left run_submission)
\* and a new process builds its Submission from the same inputs, or from the
\* same inputs and one more task, on the same remote root
NewRun ==
  /\ pc \in {"returned", "exited", "raised"}
  /\ run < MaxRuns
  /\ \E n \in {Len(belonging_tasks), Len(belonging_tasks) + 1} :
       /\ n <= MaxTasks
       /\ belonging_tasks' = Tasks(n)
       /\ belonging_jobs' = ReadyJobs(Tasks(n), resources)
       /\ Len(belonging_jobs') <= MaxRunJobs
       /\ added' = (n > Len(belonging_tasks))
  /\ submission_hash' = GetHash(resources, belonging_jobs')
  /\ pc' = "recover"
  /\ interrupt' = "none"
  /\ error' = "none"
  /\ raised_at' = "none"
  /\ exit_code' = -1
  /\ op' = "bind_batch"
  /\ ret' = "None"
  /\ calls' = <<>>
  /\ first_refresh' = <<>>
  /\ run' = run + 1
  /\ run_submits' = [i \in 1..Len(belonging_jobs') |-> 0]
  /\ only_terminated' = [i \in 1..Len(belonging_jobs') |-> TRUE]
  /\ only_finished' = [i \in 1..Len(belonging_jobs') |-> TRUE]
  /\ only_alive' = [i \in 1..Len(belonging_jobs') |-> TRUE]
  /\ sched' = sched
  /\ error_job' = 0
  /\ uploaded' = FALSE
  /\ wrote' = FALSE
  /\ slept' = FALSE
  /\ recovered' = FALSE
  /\ UNCHANGED <<resources, batch, remote, batch_submits>>

\* ------------------------------------------- the registration interface
(* The public operations a caller applies to one Submission before it is   *)
(* run, each as one step: pc stays "api", and an exception is recorded in  *)
(* error and ret and leaves the object to the caller.                      *)

\* a register_task without the lock
RegisterTaskOutcomeUnlocked(tasks, jobs, task) ==
  [tasks |-> Append(tasks, task), err |-> "none"]

\* register_task: the new belonging_tasks, or the error raised
RegisterTaskOutcome(tasks, jobs, task) ==
  IF jobs # <<>>
  THEN [tasks |-> tasks, err |-> "usage"]
  ELSE [tasks |-> Append(tasks, task), err |-> "none"]

\* register_task_list
RegisterTaskListOutcome(tasks, jobs, task_list) ==
  IF jobs # <<>>
  THEN [tasks |-> tasks, err |-> "usage"]
  ELSE [tasks |-> tasks \o task_list, err |-> "none"]

\* generate_jobs: the new belonging_jobs, or the error raised
GenerateJobsOutcome(tasks, jobs, res) ==
  IF res.group_size < 1
  THEN [jobs |-> jobs, err |-> "config"]
  ELSE IF Len(tasks) = 0
  THEN [jobs |-> jobs, err |-> "config"]
  ELSE [jobs |-> jobs \o GeneratedJobs(tasks, res), err |-> "none"]

\* a generate_jobs that leaves submission_hash as it was
SubmissionHashStale(res, jobs, err, h) == h

\* "self.submission_hash = self.get_hash()", the last statement of
\* generate_jobs, not reached when it raised
SubmissionHashAfterGenerate(res, jobs, err, h) ==
  IF err = "none" THEN GetHash(res, jobs) ELSE h

TaskIds == 1..MaxTasks

TaskLists == UNION {[1..n -> TaskIds] : n \in 0..MaxTasks}

ApiFrame ==
  /\ pc' = "api"
  /\ UNCHANGED <<interrupt, raised_at, exit_code, run, uploaded, slept, added>>

ApiReturn(name, e, a) ==
  /\ op' = name
  /\ error' = e
  /\ error_job' = 0
  /\ ret' = IF e # "none" THEN "raise" ELSE "None"
  /\ calls' = a
  /\ first_refresh' = <<>>

RegisterTask ==
  /\ pc = "api"
  /\ \E task \in TaskIds :
       LET o == RegisterTaskOutcome(belonging_tasks, belonging_jobs, task)
       IN /\ Len(o.tasks) <= MaxTasks
          /\ belonging_tasks' = o.tasks
          /\ ApiReturn("register_task", o.err, <<task>>)
  /\ ApiFrame
  /\ UNCHANGED <<resources, belonging_jobs, submission_hash, batch, remote,
                 batch_submits, run_submits, only_terminated, only_finished,
                 only_alive, sched, wrote, recovered>>

RegisterTaskList ==
  /\ pc = "api"
  /\ \E task_list \in TaskLists :
       LET o == RegisterTaskListOutcome(belonging_tasks, belonging_jobs, task_list)
       IN /\ Len(o.tasks) <= MaxTasks
          /\ belonging_tasks' = o.tasks
          /\ ApiReturn("register_task_list", o.err, task_list)
  /\ ApiFrame
  /\ UNCHANGED <<resources, belonging_jobs, submission_hash, batch, remote,
                 batch_submits, run_submits, only_terminated, only_finished,
                 only_alive, sched, wrote, recovered>>

GenerateJobs ==
  /\ pc = "api"
  /\ LET o == GenerateJobsOutcome(belonging_tasks, belonging_jobs, resources)
     IN /\ Len(o.jobs) <= MaxJobs
        /\ belonging_jobs' = o.jobs
        /\ run_submits' = [i \in 1..Len(o.jobs) |-> 0]
        /\ only_terminated' = [i \in 1..Len(o.jobs) |-> TRUE]
        /\ only_finished' = [i \in 1..Len(o.jobs) |-> TRUE]
        /\ only_alive' = [i \in 1..Len(o.jobs) |-> TRUE]
        /\ sched' = sched
        /\ submission_hash' =
             SubmissionHashAfterGenerate(resources, o.jobs, o.err, submission_hash)
        /\ ApiReturn("generate_jobs", o.err, <<>>)
  /\ ApiFrame
  /\ UNCHANGED <<resources, belonging_tasks, batch, remote, batch_submits,
                 wrote, recovered>>

\* bind_batch(batch) with a Batch
BindBatch ==
  /\ pc = "api"
  /\ submission_hash' = GetHash(resources, belonging_jobs)
  /\ batch' = "batch"
  /\ ApiReturn("bind_batch", "none", <<<<"bind_submission", 0>>>>)
  /\ ApiFrame
  /\ UNCHANGED <<resources, belonging_tasks, belonging_jobs, remote, batch_submits,
                 run_submits, only_terminated, only_finished,
                 only_alive, sched, wrote, recovered>>

\* the caller goes on with Submission.deserialize(self.serialize())
DeserializeSelf ==
  /\ pc = "api"
  /\ LET submission == Deserialize(Serialize(resources, belonging_jobs, FALSE))
     IN /\ resources' = submission.resources
        /\ belonging_tasks' = submission.belonging_tasks
        /\ belonging_jobs' = submission.belonging_jobs
        /\ submission_hash' = submission.submission_hash
  /\ batch' = "None"
  /\ ApiReturn("deserialize", "none", <<>>)
  /\ ApiFrame
  /\ UNCHANGED <<remote, batch_submits, run_submits, only_terminated, only_finished,
                 only_alive, sched, wrote, recovered>>

ApiLeave(w, name) ==
  /\ belonging_jobs' = w.jobs
  /\ remote' = w.remote
  /\ batch_submits' = w.subs
  /\ run_submits' = w.rsub
  /\ only_terminated' = w.only
  /\ only_finished' = w.onlyf
  /\ only_alive' = w.onlya
  /\ sched' = w.sched
  /\ wrote' = w.wrote
  /\ ApiReturn(name, w.err, w.calls)

\* submission_to_json() called by the caller
ApiSubmissionToJson ==
  /\ pc = "api"
  /\ batch = "batch"
  /\ Len(belonging_jobs) <= MaxRunJobs
  /\ \E w \in SubmissionToJson(World, resources, submission_hash) :
       ApiLeave(w, "submission_to_json")
  /\ ApiFrame
  /\ UNCHANGED <<resources, belonging_tasks, submission_hash, batch, recovered>>

\* try_recover_from_json() called by the caller
ApiTryRecover ==
  /\ pc = "api"
  /\ batch = "batch"
  /\ Len(belonging_jobs) <= MaxRunJobs
  /\ \E o \in TryRecover(World, resources, submission_hash) :
       /\ ApiLeave(o.w, "try_recover_from_json")
       /\ submission_hash' =
            IF o.recovered THEN GetHash(resources, o.w.jobs) ELSE submission_hash
       /\ recovered' = o.recovered
  /\ ApiFrame
  /\ UNCHANGED <<resources, belonging_tasks, batch>>

InitReg ==
  /\ resources \in [group_size : 0..MaxGroupSize]
  /\ belonging_tasks = <<>>
  /\ belonging_jobs = <<>>
  /\ submission_hash = GetHash(resources, belonging_jobs)
  /\ batch = "None"
  /\ remote = <<>>
  /\ batch_submits = EmptyBag
  /\ pc = "api"
  /\ interrupt = "none"
  /\ error = "none"
  /\ raised_at = "none"
  /\ exit_code = -1
  /\ op = "__init__"
  /\ ret = "None"
  /\ calls = <<>>
  /\ first_refresh = <<>>
  /\ run = 1
  /\ run_submits = <<>>
  /\ only_terminated = <<>>
  /\ only_finished = <<>>
  /\ only_alive = <<>>
  /\ sched = <<>>
  /\ error_job = 0
  /\ uploaded = FALSE
  /\ wrote = FALSE
  /\ slept = FALSE
  /\ recovered = FALSE
  /\ added = FALSE

NextReg ==
  \/ RegisterTask
  \/ RegisterTaskList
  \/ GenerateJobs
  \/ BindBatch
  \/ DeserializeSelf
  \/ ApiSubmissionToJson
  \/ ApiTryRecover

SpecReg == InitReg /\ [][NextReg]_vars

\* ------------------------------------------- check_all_finished on its own
(* One Submission, bound to its Batch, on which the caller calls           *)
(* check_all_finished or get_submission_state once; the Batch answers as   *)
(* it likes.                                                               *)

CheckAllFinishedCall ==
  /\ pc = "call"
  /\ \E o \in CheckAllFinished(World, resources, submission_hash) :
       Leave(o.w, "check_all_finished", o.ret, "called", o.first)
  /\ UNCHANGED <<resources, belonging_tasks, submission_hash, batch, interrupt,
                 exit_code, run, uploaded, slept, recovered, added>>

GetSubmissionStateCall ==
  /\ pc = "call"
  /\ \E w \in GetSubmissionState(World) :
       Leave(w, "get_submission_state", "None", "called", <<>>)
  /\ UNCHANGED <<resources, belonging_tasks, submission_hash, batch, interrupt,
                 exit_code, run, uploaded, slept, recovered, added>>

InitCheck ==
  /\ \E n \in 1..MaxTasks, g \in 1..MaxGroupSize :
       /\ resources = [group_size |-> g]
       /\ belonging_tasks = Tasks(n)
       /\ belonging_jobs = ReadyJobs(Tasks(n), [group_size |-> g])
       /\ Len(belonging_jobs) <= MaxJobs
  /\ submission_hash = GetHash(resources, belonging_jobs)
  /\ batch = "batch"
  /\ remote = <<>>
  /\ batch_submits = EmptyBag
  /\ pc = "call"
  /\ interrupt = "none"
  /\ error = "none"
  /\ raised_at = "none"
  /\ exit_code = -1
  /\ op = "bind_batch"
  /\ ret = "None"
  /\ calls = <<>>
  /\ first_refresh = <<>>
  /\ run = 1
  /\ run_submits = [i \in 1..Len(belonging_jobs) |-> 0]
  /\ only_terminated = [i \in 1..Len(belonging_jobs) |-> TRUE]
  /\ only_finished = [i \in 1..Len(belonging_jobs) |-> TRUE]
  /\ only_alive = [i \in 1..Len(belonging_jobs) |-> TRUE]
  /\ sched = <<>>
  /\ error_job = 0
  /\ uploaded = FALSE
  /\ wrote = FALSE
  /\ slept = FALSE
  /\ recovered = FALSE
  /\ added = FALSE

NextCheck ==
  \/ CheckAllFinishedCall
  \/ GetSubmissionStateCall

SpecCheck == InitCheck /\ [][NextCheck]_vars

\* ------------------------------------------------ generate_jobs on its own
(* A Submission with its tasks registered, on which the caller calls       *)
(* generate_jobs, and may call it again.                                   *)

GenerateJobsCall ==
  /\ pc = "gen"
  /\ LET o == GenerateJobsOutcome(belonging_tasks, belonging_jobs, resources)
     IN /\ Len(o.jobs) <= MaxGenJobs
        /\ belonging_jobs' = o.jobs
        /\ run_submits' = [i \in 1..Len(o.jobs) |-> 0]
        /\ only_terminated' = [i \in 1..Len(o.jobs) |-> TRUE]
        /\ only_finished' = [i \in 1..Len(o.jobs) |-> TRUE]
        /\ only_alive' = [i \in 1..Len(o.jobs) |-> TRUE]
        /\ sched' = sched
        /\ submission_hash' =
             SubmissionHashAfterGenerate(resources, o.jobs, o.err, submission_hash)
        /\ ApiReturn("generate_jobs", o.err, <<>>)
  /\ UNCHANGED <<resources, belonging_tasks, batch, remote, batch_submits, wrote,
                 recovered, pc, interrupt, raised_at, exit_code, run, uploaded,
                 slept, added>>

GenTaskLists == UNION {[1..n -> 1..MaxGenTasks] : n \in 0..MaxGenTasks}

InitGen ==
  /\ resources \in [group_size : 0..MaxGenGroupSize]
  /\ belonging_tasks \in GenTaskLists
  /\ belonging_jobs = <<>>
  /\ submission_hash = GetHash(resources, belonging_jobs)
  /\ batch = "None"
  /\ remote = <<>>
  /\ batch_submits = EmptyBag
  /\ pc = "gen"
  /\ interrupt = "none"
  /\ error = "none"
  /\ raised_at = "none"
  /\ exit_code = -1
  /\ op = "register_task_list"
  /\ ret = "None"
  /\ calls = <<>>
  /\ first_refresh = <<>>
  /\ run = 1
  /\ run_submits = <<>>
  /\ only_terminated = <<>>
  /\ only_finished = <<>>
  /\ only_alive = <<>>
  /\ sched = <<>>
  /\ error_job = 0
  /\ uploaded = FALSE
  /\ wrote = FALSE
  /\ slept = FALSE
  /\ recovered = FALSE
  /\ added = FALSE

NextGen == GenerateJobsCall

SpecGen == InitGen /\ [][NextGen]_vars

Next ==
  \/ TryRecoverFromJson
  \/ CheckAllFinishedStep
  \/ UploadJobs
  \/ HandleUnexpectedSubmissionStateStep
  \/ Sleep
  \/ SubmissionToJsonStep
  \/ Exit
  \/ DownloadJobs
  \/ NewRun

Spec == Init /\ [][Next]_vars

\* ------------------------------------------------- a run that is left alone
(* One process calls run_submission on a fresh remote root and is left      *)
(* alone: time.sleep returns, no Batch or Context call raises, and the      *)
(* scheduler is well behaved (sched is a record per job): it reports        *)
(* unsubmitted exactly for a job never submitted, a terminated submission   *)
(* stays terminated until the job is submitted again, it terminates at most *)
(* MaxTerminations submissions of a job, answers waiting, running or        *)
(* completing at most MaxPolls times per job, and a job once reported       *)
(* finished stays finished.                                                 *)
Undisturbed == error' \notin {"batch", "context"} /\ interrupt' = "none"

InitLive ==
  /\ \E n \in 1..MaxTasks, g \in 1..MaxGroupSize :
       /\ resources = [group_size |-> g]
       /\ belonging_tasks = Tasks(n)
       /\ belonging_jobs = ReadyJobs(Tasks(n), [group_size |-> g])
       /\ Len(belonging_jobs) <= MaxJobs
  /\ submission_hash = GetHash(resources, belonging_jobs)
  /\ batch = "batch"
  /\ remote = <<>>
  /\ batch_submits = EmptyBag
  /\ pc = "recover"
  /\ interrupt = "none"
  /\ error = "none"
  /\ raised_at = "none"
  /\ exit_code = -1
  /\ op = "bind_batch"
  /\ ret = "None"
  /\ calls = <<>>
  /\ first_refresh = <<>>
  /\ run = 1
  /\ run_submits = [i \in 1..Len(belonging_jobs) |-> 0]
  /\ only_terminated = [i \in 1..Len(belonging_jobs) |-> TRUE]
  /\ only_finished = [i \in 1..Len(belonging_jobs) |-> TRUE]
  /\ only_alive = [i \in 1..Len(belonging_jobs) |-> TRUE]
  /\ sched = [i \in 1..Len(belonging_jobs) |->
                [dead |-> FALSE, term |-> 0, polls |-> MaxPolls]]
  /\ error_job = 0
  /\ uploaded = FALSE
  /\ wrote = FALSE
  /\ slept = FALSE
  /\ recovered = FALSE
  /\ added = FALSE

NextLive ==
  \/ TryRecoverFromJson /\ Undisturbed
  \/ CheckAllFinishedStep /\ Undisturbed
  \/ UploadJobs /\ Undisturbed
  \/ HandleUnexpectedSubmissionStateStep /\ Undisturbed
  \/ Sleep /\ Undisturbed
  \/ SubmissionToJsonStep /\ Undisturbed
  \/ DownloadJobs /\ Undisturbed

\* the process is scheduled: a step it can take is eventually taken
SpecLive == InitLive /\ [][NextLive]_vars /\ WF_vars(NextLive)

\* ------------------------------------------------------------ properties

Jobs == 1..Len(belonging_jobs)

Ended == pc \in {"returned", "exited", "raised"}

\* the snapshot file of this Submission is on the remote root
HasSnapshot == SubmissionFileName(submission_hash) \in DOMAIN remote

Snapshot == remote[SubmissionFileName(submission_hash)]

\* the snapshot records the job_id and fail_count every job holds in memory
SnapshotRecordsRuntime ==
  /\ HasSnapshot
  /\ Len(Snapshot.belonging_jobs) = Len(belonging_jobs)
  /\ \A i \in Jobs :
       /\ Snapshot.belonging_jobs[i].job_id = belonging_jobs[i].job_id
       /\ Snapshot.belonging_jobs[i].fail_count = belonging_jobs[i].fail_count

\* the last operation called write_file
WroteInCall == \E k \in 1..Len(calls) : calls[k][1] = "write_file"

\* C1 (retry cap): in a run that starts with fresh jobs, for a job that
\* check_status has reported terminated on every call, run_submission never
\* issues a 7th do_submit, never returns success, raises the retry error for
\* that job only after exactly 6 do_submit calls, and, when it is the job's
\* handler that ended the run, ended it with that retry error.
C1_RetryCap ==
  \A j \in Jobs :
    (pc # "api" /\ ~recovered /\ only_terminated[j]) =>
      /\ run_submits[j] <= MaxFailCount + 1
      /\ belonging_jobs[j].fail_count = run_submits[j]
      /\ pc # "returned"
      /\ (pc = "raised" /\ error_job = j) =>
           (error = "retry" /\ run_submits[j] = 6)

C1_Witness ==
  /\ pc = "raised"
  /\ error = "retry"
  /\ error_job = 1
  /\ ~recovered
  /\ only_terminated[1]
  /\ run_submits[1] = 6
  /\ belonging_jobs[1].job_state = "terminated"

FatalErrors == {"unknown_state", "retry", "recover_failed"}

\* C2 (every fatal path first writes the snapshot): whenever run_submission
\* ends with a fatal error, a snapshot was written earlier in the same run and
\* it records the job_id and fail_count every job holds in memory.
C2_FatalAfterSnapshot ==
  (pc = "raised" /\ error \in FatalErrors) => (wrote /\ SnapshotRecordsRuntime)

\* C3 (interruption at the polling sleep): the process exits only through an
\* except clause of the polling sleep, after submission_to_json has written the
\* snapshot of the state the process holds, and with exit code 1 for
\* KeyboardInterrupt, 2 for SystemExit and 3 for any other exception.
C3_InterruptSnapshotExit ==
  /\ (interrupt # "none") = (pc \in {"except", "exit", "exited"} \/
                             (pc = "raised" /\ raised_at = "except"))
  /\ pc = "exit" =>
       /\ op = "submission_to_json"
       /\ calls # <<>>
       /\ calls[Len(calls)] = <<"write_file", 0>>
  /\ pc \in {"exit", "exited"} =>
       /\ wrote
       /\ HasSnapshot
       /\ Snapshot = Serialize(resources, belonging_jobs, FALSE)
  /\ (exit_code # -1) = (pc = "exited")
  /\ pc = "exited" =>
       /\ interrupt = "KeyboardInterrupt" => exit_code = 1
       /\ interrupt = "SystemExit" => exit_code = 2
       /\ interrupt = "Exception" => exit_code = 3

C3_Witness ==
  /\ pc = "exited"
  /\ interrupt = "SystemExit"
  /\ exit_code = 2
  /\ slept
  /\ belonging_jobs[1].fail_count = 2

\* C4 (exceptions of a polling-loop iteration): no exception raised in the
\* loop test or in the loop body leaves run_submission; the driver catches it.
C4_LoopExceptionsCaught ==
  pc = "raised" => raised_at \notin {"check_loop", "sleep", "handle_loop"}

\* C5 (snapshot before the first polling sleep): after upload_jobs and the
\* initial handler, at the first polling sleep, the snapshot is on the remote
\* root and records the job_id of every job.
C5_SnapshotAtFirstSleep ==
  (pc = "sleep" /\ uploaded /\ ~slept) =>
    /\ HasSnapshot
    /\ \A i \in Jobs : Snapshot.belonging_jobs[i].job_id = belonging_jobs[i].job_id

\* C6 (recovery round-trip): when try_recover_from_json returns in a process
\* that built its Submission from the inputs of the process that wrote the
\* snapshot, it has adopted the snapshot's jobs exactly when the snapshot
\* file of its submission_hash is on the remote root; each adopted job then
\* holds the job_id and fail_count written in the snapshot, and
\* submission_hash is still the hash under which the snapshot was written.
C6_RecoveryRoundTrip ==
  (op = "try_recover_from_json" /\ error = "none") =>
    /\ recovered = HasSnapshot
    /\ submission_hash = GetHash(resources, GeneratedJobs(belonging_tasks, resources))
    /\ recovered =>
         /\ Len(belonging_jobs) = Len(Snapshot.belonging_jobs)
         /\ \A i \in Jobs :
              /\ belonging_jobs[i].job_id = Snapshot.belonging_jobs[i].job_id
              /\ belonging_jobs[i].fail_count = Snapshot.belonging_jobs[i].fail_count
              /\ belonging_jobs[i].job_task_list = Snapshot.belonging_jobs[i].job_task_list
         /\ Serialize(resources, belonging_jobs, FALSE) = Snapshot
    /\ ~recovered => belonging_jobs = GeneratedJobs(belonging_tasks, resources)

C6_Witness ==
  /\ op = "try_recover_from_json"
  /\ error = "none"
  /\ recovered
  /\ run = 2
  /\ belonging_jobs[1].fail_count = 3
  /\ belonging_jobs[1].job_id = 3
  /\ Snapshot.belonging_jobs[1].fail_count = 3

\* a snapshot written under another submission_hash is on the remote root
OtherSnapshot == \E n \in DOMAIN remote : n # SubmissionFileName(submission_hash)

\* C7 as stated (recovery mismatch): a run whose Submission has one more task
\* than the run that left a snapshot makes no do_submit call, does not return,
\* and a fatal error that ends it is "Recover failed".
C7_RecoverFailed ==
  (added /\ OtherSnapshot) =>
    /\ \A j \in Jobs : run_submits[j] = 0
    /\ pc # "returned"
    /\ (pc = "raised" /\ error \in FatalErrors) => error = "recover_failed"

\* C7 amended: the additional task changes submission_hash, so the run looks
\* for a snapshot under a name the earlier run never wrote: it finds none,
\* adopts nothing, never raises "Recover failed", and goes on as a fresh
\* submission (the snapshot of the earlier run stays as it was).
C7_NoSnapshotFound ==
  /\ error # "recover_failed"
  /\ added =>
       /\ ~recovered
       /\ HasSnapshot => wrote
       /\ (op = "try_recover_from_json" /\ error = "none") =>
            /\ calls = <<<<"check_file_exists", 0>>>>
            /\ belonging_jobs = GeneratedJobs(belonging_tasks, resources)
       /\ \A j \in Jobs : belonging_jobs[j].fail_count = run_submits[j]

C7_Witness ==
  /\ added
  /\ OtherSnapshot
  /\ ~HasSnapshot
  /\ run_submits[1] = 1
  /\ belonging_jobs[1].job_id = 1
  /\ pc = "sleep"

\* C8 (registration lock): a call of register_task or register_task_list on
\* a Submission whose belonging_jobs is non-empty raises the usage error and
\* leaves belonging_tasks and belonging_jobs as they were; on a Submission
\* whose belonging_jobs is empty it returns normally with the task(s) of the
\* call appended, in order, at the end of belonging_tasks.
C8_RegistrationLock ==
  [][op' \in {"register_task", "register_task_list"} =>
       IF belonging_jobs # <<>>
       THEN /\ error' = "usage"
            /\ ret' = "raise"
            /\ UNCHANGED <<belonging_tasks, belonging_jobs>>
       ELSE /\ error' = "none"
            /\ ret' = "None"
            /\ belonging_tasks' = belonging_tasks \o calls'
            /\ UNCHANGED belonging_jobs]_vars

C8_Witness ==
  /\ op = "register_task"
  /\ error = "usage"
  /\ belonging_tasks = <<>>
  /\ Len(belonging_jobs) = 2

\* C9 as stated: one refreshed status R of the jobs decides both the value
\* check_all_finished returns (true iff every R[i] is finished) and whether
\* it writes a snapshot (iff some R[i] is terminated or unknown); R is tried
\* as the states of the first refresh and as the states the call leaves.
C9_SingleRefresh ==
  (op = "check_all_finished" /\ ret # "raise") =>
    \E R \in {first_refresh, States(belonging_jobs)} :
      /\ (ret = "True") = (\A i \in Jobs : R[i] = "finished")
      /\ WroteInCall = (\E i \in Jobs : R[i] \in {"terminated", "unknown"})

\* C9 amended: check_all_finished refreshes every job; it writes a snapshot
\* iff some job is terminated or unknown after that refresh, and writing the
\* snapshot refreshes every job a second time; it returns true iff every job
\* is finished after the last refresh of the call, false otherwise.
C9_CheckAllFinished ==
  (op = "check_all_finished" /\ ret # "raise") =>
    /\ ret \in {"True", "False"}
    /\ (ret = "True") = (\A i \in Jobs : belonging_jobs[i].job_state = "finished")
    /\ WroteInCall = (\E i \in Jobs : first_refresh[i] \in {"terminated", "unknown"})
    /\ \A i \in Jobs : calls[i] = <<"check_status", i>>
    /\ Len(calls) = IF WroteInCall THEN 2 * Len(belonging_jobs) + 1 ELSE Len(belonging_jobs)
    /\ WroteInCall =>
         /\ \A i \in Jobs : calls[Len(belonging_jobs) + i] = <<"check_status", i>>
         /\ Snapshot = Serialize(resources, belonging_jobs, FALSE)

C9_Witness ==
  /\ op = "check_all_finished"
  /\ ret = "True"
  /\ WroteInCall
  /\ Len(belonging_jobs) = 2
  /\ first_refresh = <<"finished", "terminated">>

\* C10 (runtime isolation): whatever submit, refresh, handler and snapshot
\* operations have run, every job_hash is the hash of the freshly generated
\* job, submission_hash is the hash of the Submission as it is now and as it
\* was generated, the static serialization is the one of the generated
\* Submission, and the Submission compares equal to the one a snapshot holds.
C10_RuntimeIsolation ==
  LET fresh == GeneratedJobs(belonging_tasks, resources)
  IN /\ Len(belonging_jobs) = Len(fresh)
     /\ \A i \in Jobs : JobHash(belonging_jobs[i]) = JobHash(fresh[i])
     /\ submission_hash = GetHash(resources, belonging_jobs)
     /\ submission_hash = GetHash(resources, fresh)
     /\ Serialize(resources, belonging_jobs, TRUE) = Serialize(resources, fresh, TRUE)
     /\ SubmissionEq(resources, belonging_jobs, resources, fresh)
     /\ HasSnapshot =>
          LET submission == Deserialize(Snapshot)
          IN /\ SubmissionEq(resources, belonging_jobs,
                             submission.resources, submission.belonging_jobs)
             /\ submission.submission_hash = submission_hash

C10_Witness ==
  /\ HasSnapshot
  /\ pc = "sleep"
  /\ belonging_jobs[1].fail_count = 3
  /\ belonging_jobs[1].job_id = 3
  /\ belonging_jobs[1].job_state = "running"
  /\ Snapshot.belonging_jobs[1].fail_count = 1
  /\ Snapshot.belonging_jobs[1].job_id = 1

\* the tasks of a list of jobs, job after job
RECURSIVE JobTasks(_)
JobTasks(jobs) ==
  IF jobs = <<>> THEN <<>> ELSE Head(jobs).job_task_list \o JobTasks(Tail(jobs))

\* how often each value occurs in a sequence
SeqBag(seq) ==
  [x \in {seq[i] : i \in DOMAIN seq} |-> Cardinality({i \in DOMAIN seq : seq[i] = x})]

\* ceil(n / g)
CeilDiv(n, g) == (n + g - 1) \div g

\* C11 (generate_jobs partitions the tasks): a generate_jobs call with no
\* task registered or group_size < 1 raises and appends no job; a call with
\* N >= 1 tasks and group_size g >= 1 on a Submission without jobs leaves
\* exactly ceil(N/g) jobs, all but the last with g tasks and the last with
\* N - g*(ceil(N/g)-1), whose task lists together hold every registered task
\* exactly as often as it was registered; a second call with the same tasks
\* and group_size appends the same list of jobs again.
C11_GenerateJobsPartition ==
  [][op' = "generate_jobs" =>
       LET N == Len(belonging_tasks)
           g == resources.group_size
           n == CeilDiv(N, g)
           new == SubSeq(belonging_jobs', Len(belonging_jobs) + 1, Len(belonging_jobs'))
       IN IF N = 0 \/ g < 1
          THEN error' = "config" /\ UNCHANGED <<belonging_jobs, submission_hash>>
          ELSE /\ error' = "none"
               /\ SubSeq(belonging_jobs', 1, Len(belonging_jobs)) = belonging_jobs
               /\ Len(new) = n
               /\ \A c \in 1..(n - 1) : Len(new[c].job_task_list) = g
               /\ Len(new[n].job_task_list) = N - g * (n - 1)
               /\ Len(new[n].job_task_list) \in 1..g
               /\ SeqBag(JobTasks(new)) = SeqBag(belonging_tasks)
               /\ \A c \in 1..n : /\ new[c].fail_count = 0
                                  /\ new[c].job_id = NoJobId
                                  /\ new[c].resources = resources
               /\ belonging_jobs # <<>> =>
                    new = SubSeq(belonging_jobs, Len(belonging_jobs) - n + 1,
                                 Len(belonging_jobs))]_vars

C11_Witness ==
  /\ op = "generate_jobs"
  /\ error = "none"
  /\ belonging_tasks = <<1, 2, 3>>
  /\ resources.group_size = 2
  /\ Len(belonging_jobs) = 4
  /\ belonging_jobs[2].job_task_list = <<3>>
  /\ belonging_jobs[3] = belonging_jobs[1]

\* C12 (all finished on entry): in a run in which check_status has answered
\* finished on every call, once the entry check has been made the driver has
\* not called upload_jobs, has made no do_submit call, and is on the way from
\* the loop test through the final handler and snapshot to download and
\* return; the only exceptions that end such a run are those of the Batch or
\* the Context themselves.
C12_AllFinishedSkip ==
  (pc \notin {"recover", "check_entry"} /\ \A j \in Jobs : only_finished[j]) =>
    /\ ~uploaded
    /\ \A j \in Jobs : run_submits[j] = 0
    /\ pc \in {"check_loop", "handle_final", "final_snapshot", "download",
               "returned", "raised"}
    /\ pc = "raised" => error \in {"batch", "context"}
    /\ pc = "returned" => (op = "download_jobs" /\ ret = "True")

C12_Witness ==
  /\ pc = "returned"
  /\ only_finished[1]
  /\ recovered
  /\ ~uploaded
  /\ run_submits[1] = 0
  /\ belonging_jobs[1].job_id = 2
  /\ belonging_jobs[1].job_state = "finished"

\* C13 (natural completion): the final handler is entered only when the loop
\* test check_all_finished has just returned true; it makes no Batch call
\* (no do_submit) and changes no job; the final snapshot is written only
\* after it, download_jobs is called only after the final snapshot has been
\* written, and run_submission returns True only from download_jobs.
C13_NaturalCompletion ==
  [][/\ pc' = "handle_final" =>
          /\ pc = "check_loop"
          /\ op' = "check_all_finished"
          /\ ret' = "True"
     /\ pc = "handle_final" =>
          /\ op' = "handle_unexpected_submission_state"
          /\ calls' = <<>>
          /\ pc' = "final_snapshot"
          /\ UNCHANGED <<belonging_jobs, run_submits, batch_submits, remote>>
     /\ pc' = "final_snapshot" => pc = "handle_final"
     /\ pc' = "download" =>
          /\ pc = "final_snapshot"
          /\ op' = "submission_to_json"
          /\ calls'[Len(calls')] = <<"write_file", 0>>
          /\ remote'[SubmissionFileName(submission_hash)] =
               Serialize(resources, belonging_jobs', FALSE)
     /\ op' = "download_jobs" => pc = "download"
     /\ pc' = "returned" =>
          /\ pc = "download"
          /\ op' = "download_jobs"
          /\ ret' = "True"]_vars

C13_Witness ==
  /\ pc = "returned"
  /\ op = "download_jobs"
  /\ slept
  /\ uploaded
  /\ run_submits[1] = 2
  /\ belonging_jobs[1].job_state = "finished"

\* C14 (recovery keeps prior job ids): in a run that recovered from a
\* snapshot, a job for which check_status has answered only waiting, running,
\* completing or finished has not been passed to do_submit in this run and
\* holds the job_id and fail_count the snapshot records for it.
C14_RecoveryKeepsJobIds ==
  \A j \in Jobs :
    (recovered /\ only_alive[j]) =>
      /\ run_submits[j] = 0
      /\ HasSnapshot
      /\ belonging_jobs[j].job_id = Snapshot.belonging_jobs[j].job_id
      /\ belonging_jobs[j].fail_count = Snapshot.belonging_jobs[j].fail_count
      /\ ~(pc = "raised" /\ error_job = j)

C14_Witness ==
  /\ recovered
  /\ only_alive[1]
  /\ ~only_finished[1]
  /\ pc = "returned"
  /\ slept
  /\ belonging_jobs[1].job_id = 2
  /\ Snapshot.belonging_jobs[1].job_id = 2

\* C15 (recovery does not re-upload): a run that recovered jobs an earlier
\* run had submitted, and for which check_status has answered only waiting,
\* running, completing or finished, has not called upload_jobs.
C15_RecoveryNoReupload ==
  (/\ recovered
   /\ \A j \in Jobs : only_alive[j] /\ belonging_jobs[j].job_id # NoJobId) =>
    ~uploaded

\* a handler call on a Submission of one job whose state is terminated or
\* unsubmitted
HandlesOneFailedJob ==
  /\ op' = "handle_unexpected_submission_state"
  /\ Len(belonging_jobs) = 1
  /\ belonging_jobs[1].job_state \in {"terminated", "unsubmitted"}

\* what such a call does when it is within its budget: fail_count + 1, one
\* do_submit, then one check_status unless do_submit raised
SubmitsOnceThenRefreshes ==
  /\ belonging_jobs'[1].fail_count = belonging_jobs[1].fail_count + 1
  /\ run_submits'[1] = run_submits[1] + 1
  /\ \/ /\ calls' = <<<<"do_submit", 1>>>>
        /\ error' = "batch"
        /\ belonging_jobs'[1].job_id = belonging_jobs[1].job_id
     \/ /\ calls' = <<<<"do_submit", 1>>, <<"check_status", 1>>>>
        /\ error' \in {"none", "batch"}
        /\ belonging_jobs'[1].job_id # belonging_jobs[1].job_id

\* C16 as stated: the handler of a terminated or unsubmitted job increments
\* fail_count and fails fatally without do_submit if the incremented value
\* exceeds 5 (so a call made with fail_count = 5 fails); otherwise it calls
\* do_submit once and then check_status once.
C16_IncrementThenTest ==
  [][HandlesOneFailedJob =>
       IF belonging_jobs[1].fail_count + 1 > MaxFailCount
       THEN /\ error' = "retry"
            /\ calls' = <<>>
            /\ UNCHANGED <<run_submits, batch_submits>>
       ELSE SubmitsOnceThenRefreshes]_vars

\* C16 amended: the handler of a terminated or unsubmitted job tests the
\* fail_count it finds: if that exceeds 5 it fails fatally with no Batch call
\* and the job unchanged; otherwise it increments fail_count, calls do_submit
\* once and then check_status once.  A call made with fail_count = 5 submits
\* and leaves fail_count = 6; a call made with fail_count = 6 fails.
C16_TestThenIncrement ==
  [][HandlesOneFailedJob =>
       IF belonging_jobs[1].fail_count > MaxFailCount
       THEN /\ belonging_jobs[1].fail_count = MaxFailCount + 1
            /\ error' = "retry"
            /\ error_job' = 1
            /\ calls' = <<>>
            /\ UNCHANGED <<belonging_jobs, run_submits, batch_submits, remote>>
       ELSE SubmitsOnceThenRefreshes]_vars

C16_Witness ==
  /\ op = "handle_unexpected_submission_state"
  /\ calls = <<<<"do_submit", 1>>, <<"check_status", 1>>>>
  /\ error = "none"
  /\ belonging_jobs[1].fail_count = 6
  /\ belonging_jobs[1].job_id = 6

\* C17 (unknown is fatal, other states are left alone): a handler call on a
\* job whose state is unknown raises the unknown-state error for that job,
\* makes no Batch call and changes nothing; a handler call on a job whose
\* state is waiting, running, completing or finished returns normally,
\* makes no Batch call (no do_submit, no check_status) and leaves job_state,
\* job_id and fail_count as they were.
C17_UnknownFatalOthersNoOp ==
  [][(op' = "handle_unexpected_submission_state" /\ Len(belonging_jobs) = 1) =>
       /\ belonging_jobs[1].job_state = "unknown" =>
            /\ error' = "unknown_state"
            /\ error_job' = 1
            /\ ret' = "raise"
            /\ calls' = <<>>
            /\ UNCHANGED <<belonging_jobs, run_submits, batch_submits, remote>>
       /\ belonging_jobs[1].job_state \in AliveStates =>
            /\ error' = "none"
            /\ ret' = "None"
            /\ calls' = <<>>
            /\ UNCHANGED <<belonging_jobs, run_submits, batch_submits, remote>>]_vars

C17_Witness ==
  /\ op = "handle_unexpected_submission_state"
  /\ error = "unknown_state"
  /\ error_job = 1
  /\ calls = <<>>
  /\ belonging_jobs[1].job_state = "unknown"
  /\ belonging_jobs[1].job_id = 2
  /\ belonging_jobs[1].fail_count = 2

\* C18 (get_submission_state observes): a get_submission_state call calls
\* check_status for the jobs in belonging_jobs order, once each, stopping
\* only if check_status raises; it makes no other Batch or Context call, the
\* jobs it asked about hold a JobStatus in job_state, and every job_id,
\* fail_count and task list, belonging_tasks, the number of jobs,
\* submission_hash, the remote root and the scheduler's submissions are as
\* they were.
C18_GetSubmissionStateObserves ==
  [][op' = "get_submission_state" =>
       /\ Len(calls') <= Len(belonging_jobs)
       /\ \A k \in 1..Len(calls') : calls'[k] = <<"check_status", k>>
       /\ error' \in {"none", "batch"}
       /\ error' = "none" => Len(calls') = Len(belonging_jobs)
       /\ Len(belonging_jobs') = Len(belonging_jobs)
       /\ \A i \in Jobs :
            /\ belonging_jobs'[i].job_id = belonging_jobs[i].job_id
            /\ belonging_jobs'[i].fail_count = belonging_jobs[i].fail_count
            /\ belonging_jobs'[i].job_task_list = belonging_jobs[i].job_task_list
            /\ belonging_jobs'[i].resources = belonging_jobs[i].resources
            /\ belonging_jobs'[i].job_state \in
                 IF i < Len(calls') \/ (i = Len(calls') /\ error' = "none")
                 THEN JobStatus ELSE {belonging_jobs[i].job_state}
       /\ UNCHANGED <<belonging_tasks, submission_hash, remote, batch_submits,
                      run_submits, wrote, resources>>]_vars

C18_Witness ==
  /\ op = "get_submission_state"
  /\ error = "none"
  /\ calls = <<<<"check_status", 1>>, <<"check_status", 2>>>>
  /\ belonging_jobs[1].job_state = "terminated"
  /\ belonging_jobs[2].job_state = "unknown"
  /\ remote = <<>>

\* C19 (liveness of the driver): a run that is left alone, whose scheduler
\* never answers unknown, terminates at most 5 submissions of a job and after
\* finitely many answers reports every submitted job finished for good,
\* eventually calls download_jobs and returns True, and never raises.
C19_DriverReturns ==
  /\ <>(pc = "returned" /\ op = "download_jobs" /\ ret = "True"
        /\ calls = <<<<"download", 0>>>>)
  /\ [](error = "none")

C19_Witness ==
  /\ pc = "returned"
  /\ ret = "True"
  /\ Len(belonging_jobs) = 2
  /\ sched[1].term = MaxTerminations
  /\ belonging_jobs[1].fail_count = MaxFailCount + 1
  /\ sched[2].term = 0
  /\ belonging_jobs[2].fail_count = 1
  /\ slept

\* C20 (submission_hash is current): after any sequence of the public
\* operations the stored submission_hash is the hash of the static
\* serialization of the Submission as it is now. Hence every snapshot on the
\* remote root is filed under the hash of the static serialization it holds,
\* a submission_to_json that returns leaves the Submission's serialization
\* under the name of its current hash, a try_recover_from_json that returns
\* has recovered exactly when a snapshot of that name exists, and it never
\* finds a snapshot of another Submission under its name.
C20_HashIsCurrent ==
  LET name == SubmissionFileName(GetHash(resources, belonging_jobs))
  IN /\ submission_hash = GetHash(resources, belonging_jobs)
     /\ \A n \in DOMAIN remote :
          n = SubmissionFileName(GetHash(Deserialize(remote[n]).resources,
                                         Deserialize(remote[n]).belonging_jobs))
     /\ (op = "submission_to_json" /\ error = "none") =>
          /\ name \in DOMAIN remote
          /\ remote[name] = Serialize(resources, belonging_jobs, FALSE)
     /\ (op = "try_recover_from_json" /\ error = "none") =>
          recovered = (name \in DOMAIN remote)
     /\ error # "recover_failed"

C20_Witness ==
  /\ op = "try_recover_from_json"
  /\ error = "none"
  /\ recovered
  /\ Len(belonging_jobs) = 1
  /\ belonging_tasks = <<>>
  /\ SubmissionFileName(GetHash(resources, <<>>)) \in DOMAIN remote
  /\ SubmissionFileName(submission_hash) \in DOMAIN remote

\* C21 (every task in exactly one job): once generate_jobs has made jobs,
\* after any number of generate_jobs calls on the registered tasks, the task
\* lists of belonging_jobs together hold every registered task exactly as
\* often as it was registered: no task is in two jobs.
C21_TaskInOneJob ==
  belonging_jobs # <<>> => SeqBag(JobTasks(belonging_jobs)) = SeqBag(belonging_tasks)

\* the do_submit calls for job j among the Batch and Context calls cs
DoSubmits(cs, j) == Cardinality({k \in DOMAIN cs : cs[k] = <<"do_submit", j>>})

\* C22 (fail_count counts the do_submit calls): in every state of a run each
\* job's fail_count is between 0 and 6. In every step of a process on its
\* jobs (every step but the construction of the jobs and their replacement
\* by the jobs read from a snapshot) only the handler calls do_submit, it
\* calls it at most once per job, whatever the refresh after it reports, and
\* each job's fail_count grows by exactly the number of do_submit calls made
\* for it; a try_recover_from_json that adopts nothing leaves it as it was.
C22_FailCountCountsSubmits ==
  /\ [](\A j \in Jobs : belonging_jobs[j].fail_count \in 0..(MaxFailCount + 1))
  /\ [][/\ op' \notin {"bind_batch", "try_recover_from_json"} =>
            /\ Len(belonging_jobs') = Len(belonging_jobs)
            /\ \A j \in Jobs :
                 /\ DoSubmits(calls', j) <= 1
                 /\ op' # "handle_unexpected_submission_state" => DoSubmits(calls', j) = 0
                 /\ belonging_jobs'[j].fail_count =
                      belonging_jobs[j].fail_count + DoSubmits(calls', j)
                 /\ run_submits'[j] = run_submits[j] + DoSubmits(calls', j)
        /\ (op' = "try_recover_from_json" /\ ~recovered') =>
            /\ DoSubmits(calls', 1) = 0
            /\ \A j \in Jobs :
                 belonging_jobs'[j].fail_count = belonging_jobs[j].fail_count]_vars

C22_Witness ==
  /\ op = "handle_unexpected_submission_state"
  /\ calls = <<<<"do_submit", 1>>, <<"check_status", 1>>>>
  /\ error = "none"
  /\ belonging_jobs[1].job_state = "unsubmitted"
  /\ belonging_jobs[1].fail_count = 2
  /\ belonging_jobs[1].job_id = 2
  /\ only_terminated[1] = FALSE
  /\ ~recovered

\* the do_submit calls made for job j by all the runs so far
TotalSubmits(j) == CopiesIn(JobHash(belonging_jobs[j]), batch_submits)

\* C23 (retry budget across runs): over the runs made on one remote root
\* with the same static inputs, each recovering from the snapshot it finds,
\* the do_submit calls made for any one job never number more than 6.
C23_CrossRunBudget ==
  ~added => \A j \in Jobs : TotalSubmits(j) <= MaxFailCount + 1

====
